---- MODULE Spec2Model ----
(***************************************************************************)
(* POI similarity-search service (backend/main.py, "Triple Model Mode")    *)
(* and its predecessor (backend/mainold.py, "Cloud Optimized").            *)
(*                                                                         *)
(* Units.  Raw similarity scores are integers in hundredths (30 = 0.30),   *)
(* multipliers are in tenths (25 = 2.5), so raw * multiplier and every     *)
(* display score are integers in thousandths (990 = 0.99, 50 = 0.05).      *)
(* Arithmetic is exact: the model takes the code's formulas over the       *)
(* rationals.                                                              *)
(***************************************************************************)
EXTENDS Integers, Sequences, FiniteSets, TLC

\* ------------------------------------------------------------------ bounds

\* Largest top_k a request asks for; the index answers with at most top_k hits.
MaxTopK == 2

\* Raw scores the index hands back (hundredths): below every CLIP threshold,
\* exactly base_clip's threshold, the spec's worked example.
Scores == {10, 22, 30}

\* ----------------------------------------------------------- configuration

\* Backend keys in the insertion order of the MODELS_CONFIG dict.
ConfigOrder == <<"base_clip", "enhanced_clip_l", "siglip2">>

ConfigKeys == {ConfigOrder[i] : i \in 1..Len(ConfigOrder)}

MODELS_CONFIG ==
    [k \in ConfigKeys |->
        CASE k = "base_clip" ->
               [collection |-> "poi_base_clip", threshold |-> 22, multiplier |-> 25]
          [] k = "enhanced_clip_l" ->
               [collection |-> "poi_enhanced_clip_l", threshold |-> 20, multiplier |-> 19]
          [] OTHER ->
               [collection |-> "poi_siglip2", threshold |-> 1, multiplier |-> 120]]

\* min(0.99, ...) of perform_search
ScoreCap == 990

\* the additive offset of the text branch of visual_score
TextOffset == 50

\* the factor of the image branch of visual_score, in tenths
ImageMultiplier == 15

\* the additive offset and factor of mainold.py's search_text, and the
\* collection both of its handlers query
OldTextOffset == 100

OldTextMultiplier == 25

OldCollection == "poi_base_clip"

\* ------------------------------------------------------------------ inputs

\* Text queries, as sequences of characters.
Q_short == <<"a", "b">>

Q_digits == <<"1", "2", "3", "4", "5">>

Q_repeat == <<"a", "a", "a", "a", "a", "a", "a", "a">>

Q_good == <<"b", "l", "o", "n", "d", "e", " ", "h", "a", "i", "r">>

Q_padded == <<" ">> \o Q_good \o <<" ">>

Q_profane == <<"d", "a", "m", "n">>

Queries == {Q_short, Q_digits, Q_repeat, Q_good, Q_padded, Q_profane}

\* The word list profanity.load_censor_words() installs, cut to one word.
CensorWords == {<<"d", "a", "m", "n">>}

\* What an uploaded file's bytes can be: a decodable image or not.
Files == {"image_bytes", "not_an_image"}

\* model_type values a caller sends: backend keys, "all", an unknown key.
ModelTypes == {"base_clip", "siglip2", "all", "resnet50"}

TopKs == 1..MaxTopK

\* image_path values of a refine request: a file under the project root or not.
ImagePaths == {"docs/images/found.jpg", "docs/images/missing.jpg"}

\* Payload path of the corpus point ranked i-th for the query.  The code only
\* copies the path, so points are named by their rank.
RankedPath(i) == <<"docs/images/rank", i>>

\* ------------------------------------------------------- character helpers

Letters ==
    {"a", "b", "c", "d", "e", "f", "g", "h", "i", "j", "k", "l", "m",
     "n", "o", "p", "q", "r", "s", "t", "u", "v", "w", "x", "y", "z"}

Vowels == {"a", "e", "i", "o", "u"}

Digits == {"0", "1", "2", "3", "4", "5", "6", "7", "8", "9"}

\* Maximal runs of non-space characters of q.
Tokens(q) ==
    {SubSeq(q, i, j) : <<i, j>> \in
        {<<a, b>> \in (1..Len(q)) \X (1..Len(q)) :
            /\ a <= b
            /\ \A n \in a..b : q[n] # " "
            /\ (a = 1 \/ q[a - 1] = " ")
            /\ (b = Len(q) \/ q[b + 1] = " ")}}

\* profanity.contains_profanity(query): some word of the text is a censor word.
ContainsProfanity(q) == Tokens(q) \cap CensorWords # {}

\* ---------------------------------------------------------- Query Validator

RECURSIVE LStrip(_)
LStrip(q) == IF q # <<>> /\ Head(q) = " " THEN LStrip(Tail(q)) ELSE q

RECURSIVE RStrip(_)
RStrip(q) ==
    IF q # <<>> /\ q[Len(q)] = " " THEN RStrip(SubSeq(q, 1, Len(q) - 1)) ELSE q

Trim(q) == RStrip(LStrip(q))

AlphaCount(t) == Cardinality({n \in 1..Len(t) : t[n] \in Letters})

VowelCount(t) == Cardinality({n \in 1..Len(t) : t[n] \in Vowels})

DistinctLetters(t) == Cardinality({t[n] : n \in 1..Len(t)} \cap Letters)

\* Some non-space character stands more than 7 times in a row.
HasLongRun(t) ==
    \E a \in 1..Len(t) :
        /\ a + 7 <= Len(t)
        /\ t[a] # " "
        /\ \A n \in a..(a + 7) : t[n] = t[a]

\* The reason the Query Validator rejects q with, "" when it accepts it:
\* the nine checks in order on the trimmed text, the first failure deciding.
ValidatorReason(q) ==
    LET t == Trim(q) IN
    CASE t = <<>> -> "empty"
      [] Len(t) < 3 -> "too short"
      [] \A n \in 1..Len(t) : t[n] \in Digits -> "numeric-only"
      [] HasLongRun(t) -> "repetitive characters"
      [] \E w \in Tokens(t) : Len(w) > 18 -> "unnaturally long word"
      [] AlphaCount(t) > 6 /\ 100 * VowelCount(t) < 25 * AlphaCount(t)
           -> "gibberish: low vowel ratio"
      [] AlphaCount(t) > 8 /\ 100 * DistinctLetters(t) < 45 * AlphaCount(t)
           -> "gibberish: low character diversity"
      [] 10 * AlphaCount(t) < 4 * Len(t) -> "too many non-alphabetic characters"
      [] ContainsProfanity(t) -> "inappropriate language"
      [] OTHER -> ""

ValidatorRejects(q) == ValidatorReason(q) # ""

\* ------------------------------------------------------------ the index

Min(a, b) == IF a <= b THEN a ELSE b

\* Score lists ordered by descending raw score.
Descending(ss) == \A n \in 1..(Len(ss) - 1) : ss[n] >= ss[n + 1]

ScoreLists(scores, top_k) ==
    UNION {{ss \in [1..n -> scores] : Descending(ss)} : n \in 0..top_k}

\* What query_points(collection, query, limit = top_k).points can be over a
\* corpus yielding the raw scores `scores`: at most top_k hits, by descending
\* score, each with its payload.
IndexAnswers(scores, top_k) ==
    {[n \in 1..Len(ss) |-> [score |-> ss[n], path |-> RankedPath(n)]] :
        ss \in ScoreLists(scores, top_k)}

\* ----------------------------------------------------------------- scoring

\* perform_search: if h.score >= threshold
KeepHitStrict(h, key) == h.score > MODELS_CONFIG[key].threshold

KeepHit(h, key) == h.score >= MODELS_CONFIG[key].threshold

\* perform_search: visual_score, before the cap
VisualScoreOld(score, key, is_image) ==
    IF ~is_image THEN score * MODELS_CONFIG[key].multiplier + OldTextOffset
    ELSE score * ImageMultiplier

VisualScore(score, key, is_image) ==
    IF ~is_image THEN score * MODELS_CONFIG[key].multiplier + TextOffset
    ELSE score * ImageMultiplier

\* perform_search: the dict appended for a retained hit
\* (Fault variant: the score is stored without min(0.99, ...).)
ResultOfUncapped(h, key, is_image) ==
    [path |-> h.path,
     score |-> VisualScore(h.score, key, is_image),
     raw_score |-> h.score]

ResultOf(h, key, is_image) ==
    [path |-> h.path,
     score |-> Min(ScoreCap, VisualScore(h.score, key, is_image)),
     raw_score |-> h.score]

\* perform_search: the loop over hits
\* (Fault variant: each retained hit is put in front of the list.)
RECURSIVE BuildResultsReversed(_, _, _)
BuildResultsReversed(hits, key, is_image) ==
    IF hits = <<>> THEN <<>>
    ELSE BuildResultsReversed(Tail(hits), key, is_image)
         \o (IF KeepHit(Head(hits), key)
             THEN <<ResultOf(Head(hits), key, is_image)>>
             ELSE <<>>)

RECURSIVE BuildResults(_, _, _)
BuildResults(hits, key, is_image) ==
    IF hits = <<>> THEN <<>>
    ELSE (IF KeepHit(Head(hits), key)
          THEN <<ResultOf(Head(hits), key, is_image)>>
          ELSE <<>>) \o BuildResults(Tail(hits), key, is_image)

\* mainold.py: the list comprehension of search_text / search_image
OldResults(hits, is_image) ==
    [n \in 1..Len(hits) |->
        [path |-> hits[n].path,
         score |-> Min(ScoreCap,
                       IF is_image THEN hits[n].score * ImageMultiplier
                       ELSE hits[n].score * OldTextMultiplier + OldTextOffset),
         raw_score |-> hits[n].score]]

\* ------------------------------------------------------------------- state

VARIABLES
    pc,               \* where the process is: startup step, idle, or inside a request
    qdrant_client,    \* TRUE when the global holds a client, FALSE for None
    models,           \* keys of the models dict, in insertion order
    refinement_pipe,  \* TRUE when the global holds the SDXL pipeline
    hf_token,         \* mainold.py: HF_TOKEN is set
    local_vectors,    \* backends whose vector file lies in the data directory
                      \* (migrate_to_qdrant.py: MODELS, vec_path.exists())
    boot_i,           \* startup_event: position of the model loop in MODELS_CONFIG
    healthy,          \* components whose initialization succeeds when it is tried
    corpus_scores,    \* raw scores the indexed corpus yields for queries
    req,              \* the request being handled (or the last one handled)
    cursor,           \* perform_search: position of the loop in models
    all_results,      \* perform_search: the dict being filled
    outcome,          \* per backend, what encode and the index did in this request
    encoded,          \* <<backend, input>> of every encode call of this request
    queried,          \* collections queried in this request, in order
    response          \* the response of the last request

vars ==
    <<pc, qdrant_client, models, refinement_pipe, hf_token, local_vectors, boot_i,
      healthy, corpus_scores, req, cursor, all_results, outcome, encoded, queried,
      response>>

EmptyMap == [k \in {} |-> <<>>]

NoRequest ==
    [op |-> "none", inputs |-> <<>>, is_image |-> FALSE, model_type |-> "",
     top_k |-> 0, image_path |-> ""]

NoResponse ==
    [status |-> 0, kind |-> "none", results |-> <<>>, mapping |-> EmptyMap,
     detail |-> ""]

\* raise HTTPException(status_code, detail), or an exception no handler catches
\* (status 500 from the framework).
ErrorResponse(status, detail) ==
    [status |-> status, kind |-> "error", results |-> <<>>, mapping |-> EmptyMap,
     detail |-> detail]

\* return {"query": ..., "results": results}
ResultsResponse(results) ==
    [status |-> 200, kind |-> "results", results |-> results, mapping |-> EmptyMap,
     detail |-> ""]

\* return res
MappingResponse(res) ==
    [status |-> 200, kind |-> "mapping", results |-> <<>>, mapping |-> res,
     detail |-> ""]

\* a handler that ends without a return statement answers 200 with null
NullResponse ==
    [status |-> 200, kind |-> "null", results |-> <<>>, mapping |-> EmptyMap,
     detail |-> ""]

\* dict.get(key, default)
Get(res, key, default) == IF key \in DOMAIN res THEN res[key] ELSE default

\* The input encode receives: the query text, or the decoded image.
ImageInput == <<"<image>">>

ModelKeys == {models[n] : n \in 1..Len(models)}

\* What startup_event initializes: the index client, each model, the pipeline.
Components == {"qdrant", "refine"} \cup ConfigKeys

\* State after the module is imported, before the startup event runs.
Init ==
    /\ pc = "boot_qdrant"
    /\ qdrant_client = FALSE
    /\ models = <<>>
    /\ refinement_pipe = FALSE
    /\ hf_token = FALSE
    /\ local_vectors \in {{}, ConfigKeys}
    /\ boot_i = 1
    /\ healthy \in SUBSET Components
    /\ corpus_scores = Scores
    /\ req = NoRequest
    /\ cursor = 0
    /\ all_results = EmptyMap
    /\ outcome = EmptyMap
    /\ encoded = {}
    /\ queried = <<>>
    /\ response = NoResponse

\* --------------------------------------------------------------- startup

\* startup_event, step 1: connect to Qdrant.  "qdrant" is healthy when
\* QDRANT_URL is set and QdrantClient(...) returns; otherwise the global
\* stays None (the else branch, or the except clause).
StartupConnect ==
    /\ pc = "boot_qdrant"
    /\ qdrant_client' = ("qdrant" \in healthy)
    /\ pc' = "boot_models"
    /\ UNCHANGED <<models, refinement_pipe, hf_token, local_vectors, boot_i, healthy, corpus_scores,
                   req, cursor, all_results, outcome, encoded, queried, response>>

\* Where the model loop goes after the load of MODELS_CONFIG's i-th model
\* raised: the except clause is inside the loop, so on to the next model.
\* (Fault variant: the exception leaves the loop.)
AfterLoadErrorLeaves(i) == Len(ConfigOrder) + 1

AfterLoadError(i) == i + 1

\* startup_event, step 2: one pass of the loop over MODELS_CONFIG.
StartupLoadModel ==
    /\ pc = "boot_models"
    /\ boot_i <= Len(ConfigOrder)
    /\ LET key == ConfigOrder[boot_i]
           loads == key \in healthy IN
        /\ models' = IF loads THEN Append(models, key) ELSE models
        /\ boot_i' = IF loads THEN boot_i + 1 ELSE AfterLoadError(boot_i)
    /\ pc' = IF boot_i' > Len(ConfigOrder) THEN "boot_refine" ELSE "boot_models"
    /\ UNCHANGED <<qdrant_client, refinement_pipe, hf_token, local_vectors, healthy, corpus_scores,
                   req, cursor, all_results, outcome, encoded, queried, response>>

\* startup_event, step 3: load the refinement pipeline; startup ends.
\* "refine" is healthy when from_pretrained(...) returns.  The global is
\* assigned before .to("mps") runs, so an exception of the device move is
\* logged and leaves the pipeline held.
StartupLoadRefine ==
    /\ pc = "boot_refine"
    /\ refinement_pipe' = ("refine" \in healthy)
    /\ pc' = "idle"
    /\ UNCHANGED <<qdrant_client, models, hf_token, local_vectors, boot_i, healthy, corpus_scores,
                   req, cursor, all_results, outcome, encoded, queried, response>>

\* -------------------------------------------------------- perform_search

\* What a handler answers with once perform_search has returned res.
\*   search_all:   return res
\*   search_text:  res.get("base_clip", []) when model_type is no key of res,
\*                 else res.get(model_type, [])
\*   search_image: return res when model_type == "all"; the handler has no
\*                 other return statement
HandlerReturn(r, res) ==
    CASE r.op = "search_all" -> MappingResponse(res)
      [] r.op = "search_text" ->
           IF r.model_type \notin DOMAIN res
           THEN ResultsResponse(Get(res, "base_clip", <<>>))
           ELSE ResultsResponse(Get(res, r.model_type, <<>>))
      [] OTHER ->
           IF r.model_type = "all" THEN MappingResponse(res) ELSE NullResponse

\* A handler calls perform_search for request r: the database check, then
\* the loop over models.items() starts (or, with no model loaded, ends).
CallPerformSearch(r) ==
    /\ req' = r
    /\ all_results' = EmptyMap
    /\ outcome' = EmptyMap
    /\ encoded' = {}
    /\ queried' = <<>>
    /\ IF ~qdrant_client
       THEN /\ response' = ErrorResponse(500, "Database not connected")
            /\ pc' = "responded"
            /\ cursor' = 0
       ELSE IF models = <<>>
       THEN /\ response' = HandlerReturn(r, EmptyMap)
            /\ pc' = "responded"
            /\ cursor' = 0
       ELSE /\ response' = NoResponse
            /\ pc' = "encode"
            /\ cursor' = 1

\* A handler answers without calling perform_search.
AnswerAtOnce(r, resp) ==
    /\ req' = r
    /\ response' = resp
    /\ all_results' = EmptyMap
    /\ outcome' = EmptyMap
    /\ encoded' = {}
    /\ queried' = <<>>
    /\ cursor' = 0
    /\ pc' = "responded"

\* The except clause of the loop body: the backend gets an empty list.
\* (Fault variant: the exception discards what the loop gathered so far.)
OnBackendErrorDiscards(res, key) == (key :> <<>>)

OnBackendError(res, key) == (key :> <<>>) @@ res

\* The loop moves to the next model, or ends and the handler answers.
NextBackend(res) ==
    IF cursor = Len(models)
    THEN /\ response' = HandlerReturn(req, res)
         /\ pc' = "responded"
         /\ cursor' = cursor
    ELSE /\ response' = response
         /\ pc' = "encode"
         /\ cursor' = cursor + 1

\* model_obj.encode(inputs) returns a vector.
EncodeReturns ==
    /\ pc = "encode"
    /\ encoded' = encoded \cup {<<models[cursor], req.inputs>>}
    /\ pc' = "query"
    /\ UNCHANGED <<qdrant_client, models, refinement_pipe, hf_token, local_vectors,
                   boot_i, healthy, corpus_scores, req, cursor, all_results, outcome, queried,
                   response>>

\* model_obj.encode(inputs) raises.
EncodeRaises ==
    /\ pc = "encode"
    /\ LET key == models[cursor] IN
        /\ encoded' = encoded \cup {<<key, req.inputs>>}
        /\ outcome' = (key :> [stage |-> "encode_error", hits |-> <<>>]) @@ outcome
        /\ all_results' = OnBackendError(all_results, key)
        /\ NextBackend(all_results')
    /\ UNCHANGED <<qdrant_client, models, refinement_pipe, hf_token, local_vectors,
                   boot_i, healthy, corpus_scores, req, queried>>

\* qdrant_client.query_points(...) answers: threshold filter and rescaling.
IndexAnswers_ ==
    /\ pc = "query"
    /\ LET key == models[cursor] IN
       \E hits \in IndexAnswers(corpus_scores, req.top_k) :
        /\ queried' = Append(queried, MODELS_CONFIG[key].collection)
        /\ outcome' = (key :> [stage |-> "ok", hits |-> hits]) @@ outcome
        /\ all_results' =
               (key :> BuildResults(hits, key, req.is_image)) @@ all_results
        /\ NextBackend(all_results')
    /\ UNCHANGED <<qdrant_client, models, refinement_pipe, hf_token, local_vectors,
                   boot_i, healthy, corpus_scores, req, encoded>>

\* qdrant_client.query_points(...) raises (network, missing collection, auth,
\* the client's own timeout).
IndexRaises ==
    /\ pc = "query"
    /\ LET key == models[cursor] IN
        /\ queried' = Append(queried, MODELS_CONFIG[key].collection)
        /\ outcome' = (key :> [stage |-> "query_error", hits |-> <<>>]) @@ outcome
        /\ all_results' = OnBackendError(all_results, key)
        /\ NextBackend(all_results')
    /\ UNCHANGED <<qdrant_client, models, refinement_pipe, hf_token, local_vectors,
                   boot_i, healthy, corpus_scores, req, encoded>>

\* --------------------------------------------------------------- handlers

\* GET /
Root ==
    /\ pc = "idle"
    /\ AnswerAtOnce([NoRequest EXCEPT !.op = "root"],
                    [status |-> 200, kind |-> "status", results |-> models,
                     mapping |-> EmptyMap, detail |-> ""])
    /\ UNCHANGED <<qdrant_client, models, refinement_pipe, hf_token, local_vectors,
                   boot_i, healthy, corpus_scores>>

\* POST /search/all
SearchAll ==
    /\ pc = "idle"
    /\ \E query \in Queries, top_k \in TopKs :
        LET r == [NoRequest EXCEPT !.op = "search_all", !.inputs = query,
                                   !.top_k = top_k] IN
        IF ContainsProfanity(query)
        THEN AnswerAtOnce(r, ErrorResponse(400, "Inappropriate language detected"))
        ELSE CallPerformSearch(r)
    /\ UNCHANGED <<qdrant_client, models, refinement_pipe, hf_token, local_vectors,
                   boot_i, healthy, corpus_scores>>

\* POST /search/text
SearchText ==
    /\ pc = "idle"
    /\ \E query \in Queries, model_type \in ModelTypes, top_k \in TopKs :
        CallPerformSearch([NoRequest EXCEPT !.op = "search_text", !.inputs = query,
                                            !.model_type = model_type,
                                            !.top_k = top_k])
    /\ UNCHANGED <<qdrant_client, models, refinement_pipe, hf_token, local_vectors,
                   boot_i, healthy, corpus_scores>>

\* POST /search/image
SearchImage ==
    /\ pc = "idle"
    /\ \E file \in Files, model_type \in ModelTypes, top_k \in TopKs :
        LET r == [NoRequest EXCEPT !.op = "search_image",
                                   !.inputs = IF file = "not_an_image"
                                              THEN <<file>> ELSE ImageInput,
                                   !.is_image = TRUE, !.model_type = model_type,
                                   !.top_k = top_k] IN
        IF file = "not_an_image"
        THEN AnswerAtOnce(r, ErrorResponse(500, "Internal Server Error"))
        ELSE CallPerformSearch(r)
    /\ UNCHANGED <<qdrant_client, models, refinement_pipe, hf_token, local_vectors,
                   boot_i, healthy, corpus_scores>>

\* POST /search/refine.  The 404 is raised inside the try block, whose
\* except Exception clause answers 500 with str(e).
RefineImage ==
    /\ pc = "idle"
    /\ \E image_path \in ImagePaths, pipe_runs \in BOOLEAN :
        LET r == [NoRequest EXCEPT !.op = "refine", !.image_path = image_path] IN
        AnswerAtOnce(r,
            IF ~refinement_pipe
            THEN ErrorResponse(503, "Generative Engine not loaded locally")
            ELSE IF image_path = "docs/images/missing.jpg"
            THEN ErrorResponse(500, "404: Original image not found")
            ELSE IF ~pipe_runs
            THEN ErrorResponse(500, "pipeline error")
            ELSE [status |-> 200, kind |-> "refined", results |-> <<>>,
                  mapping |-> EmptyMap, detail |-> "success"])
    /\ UNCHANGED <<qdrant_client, models, refinement_pipe, hf_token, local_vectors,
                   boot_i, healthy, corpus_scores>>

\* The response leaves the process; the handler's locals are gone.
Deliver ==
    /\ pc = "responded"
    /\ pc' = "idle"
    /\ req' = NoRequest
    /\ response' = NoResponse
    /\ all_results' = EmptyMap
    /\ outcome' = EmptyMap
    /\ encoded' = {}
    /\ queried' = <<>>
    /\ cursor' = 0
    /\ UNCHANGED <<qdrant_client, models, refinement_pipe, hf_token, local_vectors,
                   boot_i, healthy, corpus_scores>>

Next ==
    \/ StartupConnect
    \/ StartupLoadModel
    \/ StartupLoadRefine
    \/ Root
    \/ SearchAll
    \/ SearchText
    \/ SearchImage
    \/ RefineImage
    \/ EncodeReturns
    \/ EncodeRaises
    \/ IndexAnswers_
    \/ IndexRaises
    \/ Deliver

Spec == Init /\ [][Next]_vars

\* Raw scores of a wider corpus (hundredths): a negative cosine, zero, each
\* backend's threshold and the value just below it, the worked examples, the
\* least score the image branch caps (0.66) and an identical image (1.00).
WideScores == {-5, 0, 1, 10, 19, 20, 21, 22, 30, 66, 100}

\* The service over the wider corpus, in the processes in which at most one
\* model loads: the scoring of each backend on its own.
InitWide ==
    /\ pc = "boot_qdrant"
    /\ qdrant_client = FALSE
    /\ models = <<>>
    /\ refinement_pipe = FALSE
    /\ hf_token = FALSE
    /\ local_vectors \in {{}, ConfigKeys}
    /\ boot_i = 1
    /\ healthy \in {h \in SUBSET Components : Cardinality(h \cap ConfigKeys) <= 1}
    /\ corpus_scores = WideScores
    /\ req = NoRequest
    /\ cursor = 0
    /\ all_results = EmptyMap
    /\ outcome = EmptyMap
    /\ encoded = {}
    /\ queried = <<>>
    /\ response = NoResponse

WideSpec == InitWide /\ [][Next]_vars

\* ---------------------------------------------------------------- mainold.py

\* State after mainold.py is imported: the module connects to Qdrant when
\* QDRANT_URL is set and reads HF_TOKEN; it loads no model.
InitOld ==
    /\ pc = "idle"
    /\ qdrant_client \in BOOLEAN
    /\ hf_token \in BOOLEAN
    /\ models = <<>>
    /\ refinement_pipe = FALSE
    /\ local_vectors \in {{}, ConfigKeys}
    /\ boot_i = 1
    /\ healthy = {}
    /\ corpus_scores = Scores
    /\ req = NoRequest
    /\ cursor = 0
    /\ all_results = EmptyMap
    /\ outcome = EmptyMap
    /\ encoded = {}
    /\ queried = <<>>
    /\ response = NoResponse

\* search_text / search_image of mainold.py up to the requests.post call of
\* get_hf_embeddings, which is made without a timeout.
OldCall(r) ==
    /\ req' = r
    /\ all_results' = EmptyMap
    /\ outcome' = EmptyMap
    /\ encoded' = {}
    /\ queried' = <<>>
    /\ cursor' = 0
    /\ IF ~qdrant_client
       THEN /\ response' = ErrorResponse(500, "Qdrant not connected")
            /\ pc' = "responded"
       ELSE IF ~hf_token
       THEN /\ response' =
                   ErrorResponse(500, "HF_TOKEN missing in environment variables")
            /\ pc' = "responded"
       ELSE /\ response' = NoResponse
            /\ pc' = "hf_wait"

\* mainold.py: POST /search/text
OldSearchText ==
    /\ pc = "idle"
    /\ \E query \in Queries, model_type \in ModelTypes, top_k \in TopKs :
        OldCall([NoRequest EXCEPT !.op = "old_search_text", !.inputs = query,
                                  !.model_type = model_type, !.top_k = top_k])
    /\ UNCHANGED <<qdrant_client, models, refinement_pipe, hf_token, local_vectors,
                   boot_i, healthy, corpus_scores>>

\* mainold.py: POST /search/image (the bytes go to the inference API as read)
OldSearchImage ==
    /\ pc = "idle"
    /\ \E file \in Files, model_type \in ModelTypes, top_k \in TopKs :
        OldCall([NoRequest EXCEPT !.op = "old_search_image", !.inputs = <<file>>,
                                  !.is_image = TRUE, !.model_type = model_type,
                                  !.top_k = top_k])
    /\ UNCHANGED <<qdrant_client, models, refinement_pipe, hf_token, local_vectors,
                   boot_i, healthy, corpus_scores>>

\* The inference API answers 200 with the vector; the handler queries the index.
OldHfAnswers ==
    /\ pc = "hf_wait"
    /\ encoded' = encoded \cup {<<"base_clip", req.inputs>>}
    /\ pc' = "old_query"
    /\ UNCHANGED <<qdrant_client, models, refinement_pipe, hf_token, local_vectors,
                   boot_i, healthy, corpus_scores, req, cursor, all_results, outcome, queried,
                   response>>

\* The inference API answers with another status, or the connection fails.
OldHfFails ==
    /\ pc = "hf_wait"
    /\ encoded' = encoded \cup {<<"base_clip", req.inputs>>}
    /\ outcome' = ("base_clip" :> [stage |-> "encode_error", hits |-> <<>>])
    /\ response' = ErrorResponse(500, "HF API Error")
    /\ pc' = "responded"
    /\ UNCHANGED <<qdrant_client, models, refinement_pipe, hf_token, local_vectors,
                   boot_i, healthy, corpus_scores, req, cursor, all_results, queried>>

\* qdrant_client.search(...) answers: every hit is rescaled and returned.
OldIndexAnswers ==
    /\ pc = "old_query"
    /\ \E hits \in IndexAnswers(corpus_scores, req.top_k) :
        /\ outcome' = ("base_clip" :> [stage |-> "ok", hits |-> hits])
        /\ response' = ResultsResponse(OldResults(hits, req.is_image))
    /\ queried' = Append(queried, OldCollection)
    /\ pc' = "responded"
    /\ UNCHANGED <<qdrant_client, models, refinement_pipe, hf_token, local_vectors,
                   boot_i, healthy, corpus_scores, req, cursor, all_results, encoded>>

\* qdrant_client.search(...) raises: HTTPException(500, str(e)).
OldIndexRaises ==
    /\ pc = "old_query"
    /\ outcome' = ("base_clip" :> [stage |-> "query_error", hits |-> <<>>])
    /\ response' = ErrorResponse(500, "index error")
    /\ queried' = Append(queried, OldCollection)
    /\ pc' = "responded"
    /\ UNCHANGED <<qdrant_client, models, refinement_pipe, hf_token, local_vectors,
                   boot_i, healthy, corpus_scores, req, cursor, all_results, encoded>>

NextOld ==
    \/ OldSearchText
    \/ OldSearchImage
    \/ OldHfAnswers
    \/ OldHfFails
    \/ OldIndexAnswers
    \/ OldIndexRaises
    \/ Deliver

\* The handler's own steps are taken once they can be, and the Qdrant client
\* ends every call (an answer, or an error when its timeout expires).  Nothing
\* makes the inference API answer, and requests.post sets no timeout.
OldSpec ==
    /\ InitOld
    /\ [][NextOld]_vars
    /\ WF_vars(OldIndexAnswers \/ OldIndexRaises)
    /\ WF_vars(Deliver)

\* ================================================================= claims

Responded == pc = "responded"

SearchOps == {"search_all", "search_text", "search_image"}

TextOps == {"search_all", "search_text"}

\* perform_search ran its loop to the end and the handler answered.
SearchReturned == Responded /\ req.op \in SearchOps /\ response.status = 200

Threshold(k) == MODELS_CONFIG[k].threshold

RawScores(results) == [n \in 1..Len(results) |-> results[n].raw_score]

HitScores(hits) == [n \in 1..Len(hits) |-> hits[n].score]

Count(seq, v) == Cardinality({n \in 1..Len(seq) : seq[n] = v})

\* C1: threshold filter.  In the dict perform_search builds (text or image
\* query), no result of a backend has a raw score below that backend's
\* threshold, and every hit the index returned with a raw score at or above
\* the threshold is in the backend's list, as often as the index returned it.
C1_ThresholdFilter ==
    \A k \in DOMAIN all_results :
        /\ \A n \in 1..Len(all_results[k]) :
               all_results[k][n].raw_score >= Threshold(k)
        /\ outcome[k].stage = "ok" =>
               \A s \in corpus_scores :
                   s >= Threshold(k) =>
                       Count(RawScores(all_results[k]), s)
                           = Count(HitScores(outcome[k].hits), s)

\* An image search has answered; base_clip's index returned a hit exactly at
\* the threshold (0.22) above one below it (0.10), and only the first is kept.
C1_Witness ==
    /\ SearchReturned
    /\ req.op = "search_image"
    /\ "base_clip" \in DOMAIN all_results
    /\ outcome["base_clip"].stage = "ok"
    /\ HitScores(outcome["base_clip"].hits) = <<22, 10>>
    /\ RawScores(all_results["base_clip"]) = <<22>>

\* The display score of a text result on backend k with raw score s, with
\* additive offset o (thousandths).
TextDisplay(s, k, o) == Min(990, s * MODELS_CONFIG[k].multiplier + o)

TextScoresAre(o) ==
    req.op \in TextOps =>
        \A k \in DOMAIN all_results :
            \A n \in 1..Len(all_results[k]) :
                all_results[k][n].score
                    = TextDisplay(all_results[k][n].raw_score, k, o)

BaseClipExample(display) ==
    (req.op \in TextOps /\ "base_clip" \in DOMAIN all_results
        /\ outcome["base_clip"].stage = "ok") =>
        LET hits == outcome["base_clip"].hits
            res == all_results["base_clip"] IN
        /\ \A m \in 1..Len(hits) :
               hits[m].score = 30 =>
                   \E n \in 1..Len(res) :
                       res[n].raw_score = 30 /\ res[n].score = display
        /\ \A n \in 1..Len(res) : res[n].raw_score # 10

\* C2 as the specification states it: for a text query every retained hit
\* gets display_score = min(0.99, s*m + 0.1); on base_clip a hit with raw
\* score 0.30 is retained with display score 0.85 and one with 0.10 is dropped.
C2_Original == TextScoresAre(100) /\ BaseClipExample(850)

\* C2, amended: for a text query every retained hit gets display_score =
\* min(0.99, s*m + 0.05); on base_clip a hit with raw score 0.30 is retained
\* with display score 0.80 and one with 0.10 is dropped.
C2_TextDisplayScore == TextScoresAre(50) /\ BaseClipExample(800)

\* A text search has answered; base_clip's index returned 0.30 and 0.10, and
\* the list holds the first alone, shown as 0.80.
C2_Witness ==
    /\ SearchReturned
    /\ req.op = "search_text"
    /\ "base_clip" \in DOMAIN all_results
    /\ outcome["base_clip"].stage = "ok"
    /\ HitScores(outcome["base_clip"].hits) = <<30, 10>>
    /\ Len(all_results["base_clip"]) = 1
    /\ all_results["base_clip"][1].raw_score = 30
    /\ all_results["base_clip"][1].score = 800

SomeBackendFailed == \E k \in DOMAIN outcome : outcome[k].stage # "ok"

\* Every backend of the returned dict has the list its own encode and index
\* query account for: empty after a failure, the filtered hits otherwise.
EachBackendOnItsOwn ==
    \A k \in DOMAIN all_results :
        /\ k \in DOMAIN outcome
        /\ outcome[k].stage # "ok" => all_results[k] = <<>>
        /\ outcome[k].stage = "ok" =>
               all_results[k] = BuildResults(outcome[k].hits, k, req.is_image)

FanOut(keys) ==
    (SearchReturned /\ SomeBackendFailed) =>
        /\ DOMAIN all_results = keys
        /\ EachBackendOnItsOwn
        /\ req.op = "search_all" => response.mapping = all_results

\* C3 as the specification states it: when one backend's encode or index
\* query raises, the returned mapping still has an entry for every backend
\* key of MODELS_CONFIG, and the other backends' lists are unaffected.
C3_Original == FanOut(ConfigKeys)

\* C3, amended: when one backend's encode or index query raises, the returned
\* mapping still has an entry for every backend whose model loaded at startup
\* (every key of models), and the other backends' lists are unaffected.
C3_FanOutIsolation == FanOut(ModelKeys)

\* A fan-out has answered with base_clip's index query failed and siglip2's
\* hits in the mapping.
C3_Witness ==
    /\ SearchReturned
    /\ req.op = "search_all"
    /\ ModelKeys = ConfigKeys
    /\ outcome["base_clip"].stage = "query_error"
    /\ outcome["enhanced_clip_l"].stage = "encode_error"
    /\ response.mapping["base_clip"] = <<>>
    /\ Len(response.mapping["siglip2"]) = 2

\* The request got past everything that precedes the choice of a backend:
\* the upload decoded and the index client exists.
ReachedBackends == qdrant_client /\ req.inputs # <<"not_an_image">>

\* C4: remote-to-local fallback.  When the remote index is not configured or
\* its query raises, a search is answered from the local vectors whenever a
\* loaded backend has them, a service error is surfaced only when no fallback
\* data exists, and no collection is queried twice in one request.
C4_RemoteToLocalFallback ==
    (Responded /\ req.op \in SearchOps /\ req.inputs # <<"not_an_image">>) =>
        /\ (~qdrant_client /\ ModelKeys \cap local_vectors # {}) =>
               response.status = 200
        /\ response.status >= 500 => ModelKeys \cap local_vectors = {}
        /\ \A c \in {queried[n] : n \in 1..Len(queried)} : Count(queried, c) <= 1

\* C5: validation gate.  For search_text and search_all, a query the Query
\* Validator rejects is answered with a user error (stated here for a process
\* that holds the index client and a model) and no encode call or index query
\* is made for it; an accepted query reaches the backends as the trimmed text.
C5_ValidationGate ==
    req.op \in TextOps =>
        IF ValidatorRejects(req.inputs)
        THEN /\ encoded = {}
             /\ queried = <<>>
             /\ (Responded /\ qdrant_client /\ models # <<>>) =>
                    response.status \in 400..499
        ELSE \A e \in encoded : e[2] = Trim(req.inputs)

\* C6: single-backend failure propagation.  When search_text names a backend
\* whose encode or index query failed in this request, the response is an
\* error, never a success with an empty or another backend's list.
C6_SingleBackendFailurePropagates ==
    (Responded /\ req.op = "search_text" /\ req.model_type \in DOMAIN outcome
        /\ outcome[req.model_type].stage # "ok") =>
        /\ response.kind = "error"
        /\ response.status >= 400
        /\ response.detail # ""

\* C7: BackendUnavailable.  A search_text or search_image request whose
\* model_type is no key of MODELS_CONFIG, or names a backend whose model did
\* not load, is answered with a client error, never with another backend's
\* results.
C7_BackendUnavailable ==
    (Responded /\ req.op \in {"search_text", "search_image"} /\ ReachedBackends
        /\ req.model_type \notin ModelKeys \cup {"all"}) =>
        /\ response.status \in 400..499
        /\ response.results = <<>>

\* C8: search_image for one loaded backend answers with that backend's list,
\* built by the encode, index query, threshold filter and image branch of the
\* shared flow; model_type "all" answers with the mapping.
C8_SearchImageSingleBackend ==
    (Responded /\ req.op = "search_image" /\ ReachedBackends) =>
        /\ req.model_type = "all" => response = MappingResponse(all_results)
        /\ req.model_type \in ModelKeys =>
               response = ResultsResponse(all_results[req.model_type])

StartupDone == pc \notin {"boot_qdrant", "boot_models", "boot_refine"}

\* C9: partial startup.  Whatever fails among the index connection, the model
\* loads and the pipeline load, startup always has its next step to take; once
\* it is over, the index client is held exactly when its connection
\* succeeded, each model exactly when its own load succeeded, the pipeline
\* exactly when its own load returned, and root reports exactly the backends
\* that loaded.
C9_PartialStartup ==
    /\ ~StartupDone =>
           ENABLED (StartupConnect \/ StartupLoadModel \/ StartupLoadRefine)
    /\ StartupDone =>
           /\ qdrant_client = ("qdrant" \in healthy)
           /\ ModelKeys = healthy \cap ConfigKeys
           /\ Len(models) = Cardinality(ModelKeys)
           /\ refinement_pipe = ("refine" \in healthy)
    /\ (Responded /\ req.op = "root") =>
           /\ response.status = 200
           /\ {response.results[n] : n \in 1..Len(response.results)}
                  = healthy \cap ConfigKeys

\* Root has answered after a startup in which the index connection and the
\* second model failed, and the first and third model loaded.
C9_Witness ==
    /\ Responded
    /\ req.op = "root"
    /\ healthy = {"base_clip", "siglip2", "refine"}
    /\ ~qdrant_client
    /\ refinement_pipe
    /\ response.results = <<"base_clip", "siglip2">>

\* C10: bounded response.  Every search request that has called out to the
\* inference API or the index is eventually answered, with results or an
\* error, whether or not the remote side ever answers.
C10_BoundedResponse == (pc \in {"hf_wait", "old_query"}) ~> Responded

\* C11: in every list perform_search builds, on every backend and for the
\* text and the image branch, each display score lies in [0, 0.99], and within
\* a backend's list a result with a raw score no greater than another's has a
\* display score no greater than the other's.
C11_DisplayScoreRange ==
    \A k \in DOMAIN all_results :
        LET res == all_results[k] IN
        /\ \A n \in 1..Len(res) : res[n].score >= 0 /\ res[n].score <= 990
        /\ \A n \in 1..Len(res), m \in 1..Len(res) :
               res[n].raw_score <= res[m].raw_score =>
                   res[n].score <= res[m].score

\* An image search has answered; siglip2's index returned an identical image
\* (1.00) above a weak match (0.10): the first is shown capped at 0.99, the
\* second as 0.15.
C11_Witness ==
    /\ SearchReturned
    /\ req.op = "search_image"
    /\ "siglip2" \in DOMAIN all_results
    /\ outcome["siglip2"].stage = "ok"
    /\ HitScores(outcome["siglip2"].hits) = <<100, 10>>
    /\ Len(all_results["siglip2"]) = 2
    /\ all_results["siglip2"][1].score = 990
    /\ all_results["siglip2"][2].score = 150

\* res is hits with some hits left out: its results are hits' payloads and
\* raw scores at strictly increasing positions.
IsSubsequence(res, hits) ==
    \E at \in [1..Len(res) -> 1..Len(hits)] :
        /\ \A n \in 1..Len(res), m \in 1..Len(res) : n < m => at[n] < at[m]
        /\ \A n \in 1..Len(res) :
               /\ res[n].path = hits[at[n]].path
               /\ res[n].raw_score = hits[at[n]].score

\* C12: the list perform_search builds for a backend is a subsequence of the
\* hits the index returned for that backend's collection, in the same relative
\* order (so by descending raw score, ties in the index's order), and it is
\* no longer than top_k.
C12_OrderAndSize ==
    \A k \in DOMAIN all_results :
        /\ Len(all_results[k]) <= req.top_k
        /\ Descending(RawScores(all_results[k]))
        /\ outcome[k].stage = "ok" => IsSubsequence(all_results[k], outcome[k].hits)
        /\ outcome[k].stage # "ok" => all_results[k] = <<>>

\* A search has answered; the index returned two different points for
\* enhanced_clip_l, the better first, and the list holds both in that order.
C12_Witness ==
    /\ SearchReturned
    /\ req.top_k = 2
    /\ "enhanced_clip_l" \in DOMAIN all_results
    /\ outcome["enhanced_clip_l"].stage = "ok"
    /\ HitScores(outcome["enhanced_clip_l"].hits) = <<30, 22>>
    /\ RawScores(all_results["enhanced_clip_l"]) = <<30, 22>>
    /\ all_results["enhanced_clip_l"][1].path = RankedPath(1)
    /\ all_results["enhanced_clip_l"][2].path = RankedPath(2)

\* C13: refine_image answers 503 when the pipeline is not loaded, whatever
\* the path, and 404 "Original image not found", not 500, when the pipeline
\* is loaded and image_path names no file under the project root.
C13_RefineErrorCodes ==
    (Responded /\ req.op = "refine") =>
        /\ ~refinement_pipe =>
               response = ErrorResponse(503, "Generative Engine not loaded locally")
        /\ (refinement_pipe /\ req.image_path = "docs/images/missing.jpg") =>
               response = ErrorResponse(404, "Original image not found")

====
